---- MODULE Spec2Model ----
(***************************************************************************)
(* The renew command of lego (cmd/cmd_renew.go): the startup check of      *)
(* createRenew (Before), the action renew with its two variants            *)
(* renewForDomains and renewForCSR, the decision needRenewal and the       *)
(* domain reconciliation merge.                                            *)
(*                                                                         *)
(* Process exits (log.Fatal, log.Fatalf) are the terminal position         *)
(* "fatal"; a return from the action is the terminal position "returned"   *)
(* with result "nil" or "err".  Calls into the collaborators (account      *)
(* setup, certificate storage, the ACME client, the hook) draw their       *)
(* outcome nondeterministically; every call is appended to trace.          *)
(*                                                                         *)
(* The arvancloud DNS provider (providers/dns/arvancloud/arvancloud.go):   *)
(* its two constructors, Timeout, Present and CleanUp, called by two       *)
(* callers against one backend of TXT records (SpecProvider).              *)
(***************************************************************************)
EXTENDS Integers, Sequences, FiniteSets, TLC

(* ---------------------------- bounds ----------------------------------- *)
\* longest domain list on the command line and in a stored certificate
MaxLen == 2
\* longest domain list given to merge when it is called directly
MaxMergeLen == 3
\* thresholds of the command (--days) range over -1..MaxDays
MaxDays == 2
\* hours until NotAfter of a stored certificate: 12 * (-3..MaxSteps)
MaxSteps == 7
\* needRenewal called directly: thresholds -2..MaxFnDays, hours -48..MaxFnHours
MaxFnDays == 32
MaxFnHours == 790

\* arvancloud: TTLs of a configuration range over minTTL - 1 .. minTTL + MaxTTLOver
MaxTTLOver == 1
\* arvancloud: calls (Present, CleanUp) the callers make at most, together
MaxCalls == 3

Domain == {"a.com", "b.com"}
MergeDomain == {"a.com", "b.com", "c.com"}
Days == -1..MaxDays
HoursLeft == {12 * k : k \in -3..MaxSteps}

SeqsUpTo(S, n) == UNION {[1..k -> S] : k \in 0..n}

\* a parsed leaf (or CA) certificate: x509.Certificate as far as renew reads it
Certs == [kind : {"cert"}, IsCA : BOOLEAN, hoursLeft : HoursLeft,
          domains : SeqsUpTo(Domain, MaxLen)]
NoCert == [kind |-> "none"]
NoRequest == [kind |-> "none"]
NoCertRes == [kind |-> "none"]

\* the names of the hook environment
renewEnvAccountEmail == "LEGO_ACCOUNT_EMAIL"
renewEnvCertDomain == "LEGO_CERT_DOMAIN"
renewEnvCertPath == "LEGO_CERT_PATH"
renewEnvCertKeyPath == "LEGO_CERT_KEY_PATH"

AccountEmail == "me@a.com"
NoMeta == [k \in {} |-> ""]

VARIABLES
  pc,         \* position of the command
  result,     \* what the action returned: "none", "nil", "err"
  ctx,        \* the command line (cli.Context)
  variant,    \* "none", "domains", "csr"
  domain,     \* the primary domain of the run
  cert,       \* certificates[0] read from storage
  decision,   \* "none", "renew", "skip", "fatal"
  privateKey, \* "nil" or "storedKey"
  request,    \* the issuance request handed to the ACME client
  certRes,    \* the certificate resource the ACME client returned
  saved,      \* the resources SaveResource wrote, in order
  meta,       \* the hook metadata
  hookCalls,  \* the calls of launchHook, in order
  trace,      \* every call made, in order
  fnIn,       \* needRenewal or merge called directly: the arguments
  fnOut,      \* needRenewal or merge called directly: what it returned
  ctor,       \* arvancloud: the constructor called and its input
  provider,   \* arvancloud: the DNSProvider, once constructed
  timeouts,   \* arvancloud: what Timeout() returned
  records,    \* the DNS records of the backend
  nextID,     \* the next record identifier of the backend
  chal,       \* per caller: the challenge (domain, keyAuth) it works on
  cur,        \* per caller: the call in progress
  hist,       \* per caller: the calls completed, in order
  writes      \* number of changes made to the backend

provVars == <<ctor, provider, timeouts, records, nextID, chal, cur, hist,
              writes>>

vars == <<pc, result, ctx, variant, domain, cert, decision, privateKey,
          request, certRes, saved, meta, hookCalls, trace, fnIn, fnOut,
          provVars>>

NoFn == [kind |-> "none"]

(* ------------------------- pure functions ------------------------------ *)
\* int(x / 24.0): Go's conversion of a float to int truncates toward zero
TruncDiv(a, b) == IF a >= 0 THEN a \div b ELSE -((-a) \div b)

needRenewalGe(c, days) ==
  IF c.IsCA THEN [fatal |-> TRUE, ret |-> FALSE]
  ELSE IF days >= 0 /\ TruncDiv(c.hoursLeft, 24) >= days
       THEN [fatal |-> FALSE, ret |-> FALSE]
       ELSE [fatal |-> FALSE, ret |-> TRUE]

needRenewalNoCA(c, days) ==
  IF days >= 0 /\ TruncDiv(c.hoursLeft, 24) > days
  THEN [fatal |-> FALSE, ret |-> FALSE]
  ELSE [fatal |-> FALSE, ret |-> TRUE]

\* needRenewal: fatal on a CA certificate, otherwise the decision
needRenewal(c, days) ==
  IF c.IsCA THEN [fatal |-> TRUE, ret |-> FALSE]
  ELSE IF days >= 0 /\ TruncDiv(c.hoursLeft, 24) > days
       THEN [fatal |-> FALSE, ret |-> FALSE]
       ELSE [fatal |-> FALSE, ret |-> TRUE]

RECURSIVE mergeOffByOne(_, _)
mergeOffByOne(prevDomains, nextDomains) ==
  IF nextDomains = <<>> THEN prevDomains
  ELSE LET next == Head(nextDomains)
           found == \E i \in 1..Len(prevDomains) :
                       prevDomains[i] = next /\ i # Len(prevDomains)
       IN mergeOffByOne(IF found THEN prevDomains ELSE Append(prevDomains, next),
                       Tail(nextDomains))

RECURSIVE mergeFront(_, _)
mergeFront(prevDomains, nextDomains) ==
  IF nextDomains = <<>> THEN prevDomains
  ELSE LET next == Head(nextDomains)
           found == \E i \in 1..Len(prevDomains) : prevDomains[i] = next
       IN mergeFront(IF found THEN prevDomains ELSE <<next>> \o prevDomains,
                     Tail(nextDomains))

\* merge: the loop over nextDomains, appending what prevDomains lacks
RECURSIVE merge(_, _)
merge(prevDomains, nextDomains) ==
  IF nextDomains = <<>> THEN prevDomains
  ELSE LET next == Head(nextDomains)
           found == \E i \in 1..Len(prevDomains) : prevDomains[i] = next
       IN merge(IF found THEN prevDomains ELSE Append(prevDomains, next),
                Tail(nextDomains))

\* certsStorage.GetFileName(domain, extension)
GetFileName(d, ext) == d \o ext

(* ------------------- arvancloud: values and idle state ----------------- *)
minTTL == 600

NilConfig == [kind |-> "nil"]
NoProvider == [kind |-> "none"]
NoTimeouts == [kind |-> "none"]
NoRec == [kind |-> "none", id |-> 0]
NoCall == [op |-> "none"]
Callers == {1, 2}

\* no provider is in use
ProvIdle ==
  /\ ctor = [kind |-> "none"] /\ provider = NoProvider
  /\ timeouts = NoTimeouts /\ records = {} /\ nextID = 1
  /\ chal = <<>> /\ cur = <<>> /\ hist = <<>> /\ writes = 0

(* --------------------------- the command ------------------------------- *)
Contexts ==
  [domains : SeqsUpTo(Domain, MaxLen),
   csrSet : BOOLEAN, csr : {"", "req.csr"},
   days : Days, reuseKey : BOOLEAN, noBundle : BOOLEAN,
   mustStaple : BOOLEAN, hook : {"", "hook.sh"}]

\* the renew command is started with a command line
InitRenew ==
  /\ pc = "Before"
  /\ result = "none"
  /\ ctx \in {c \in Contexts : c.csr # "" => c.csrSet}
  /\ variant = "none"
  /\ domain = ""
  /\ cert = NoCert
  /\ decision = "none"
  /\ privateKey = "nil"
  /\ request = NoRequest
  /\ certRes = NoCertRes
  /\ saved = <<>>
  /\ meta = NoMeta
  /\ hookCalls = <<>>
  /\ trace = <<>>
  /\ fnIn = NoFn
  /\ fnOut = NoFn
  /\ ProvIdle

hasDomains == Len(ctx.domains) > 0
hasCsr == ctx.csr # ""

BeforeAbortsOnlyNeither(hd, hc) == ~hd /\ ~hc

\* the two log.Fatal of Before
BeforeAborts(hd, hc) == (hd /\ hc) \/ (~hd /\ ~hc)

\* createRenew, Before: either domains or csr, but not both
Before ==
  /\ pc = "Before"
  /\ pc' = IF BeforeAborts(hasDomains, hasCsr) THEN "fatal" ELSE "renew"
  /\ UNCHANGED <<result, ctx, variant, domain, cert, decision, privateKey,
                 request, certRes, saved, meta, hookCalls, trace, fnIn, fnOut,
                 provVars>>


bundle == ~ctx.noBundle

\* renew: account and client setup, challenge setup, then one of the variants
renew ==
  /\ pc = "renew"
  /\ trace' = trace \o <<"setup", "setupChallenges">>
  /\ \E registered \in BOOLEAN :
       IF ~registered
       THEN /\ pc' = "fatal"
            /\ UNCHANGED <<meta, variant>>
       ELSE /\ meta' = (renewEnvAccountEmail :> AccountEmail)
            /\ variant' = IF ctx.csrSet THEN "csr" ELSE "domains"
            /\ pc' = IF ctx.csrSet THEN "renewForCSR" ELSE "renewForDomains"
  /\ UNCHANGED <<result, ctx, domain, cert, decision, privateKey,
                 request, certRes, saved, hookCalls, fnIn, fnOut,
                 provVars>>

(* ---- the branches of the workflow, shared by both variants ---- *)
\* the certificate could not be loaded: log.Fatalf
AfterReadCertificate(err, next) == IF err THEN "fatal" ELSE next

\* needRenewal is fatal on a CA, false returns nil, true goes on
DecisionOf(nr) ==
  IF nr.fatal THEN "fatal" ELSE IF nr.ret THEN "renew" ELSE "skip"

AfterDecisionSkipGoesOn(d, next) ==
  IF d = "fatal" THEN "fatal" ELSE next

AfterDecision(d, next) ==
  IF d = "fatal" THEN "fatal" ELSE IF d = "skip" THEN "returned" ELSE next

AfterObtainIgnoreErr(err) == "SaveResource"

AfterObtainSkipSave(err) == IF err THEN "fatal" ELSE "launchHook"

\* a failed issuance: log.Fatal(err)
AfterObtain(err) == IF err THEN "fatal" ELSE "SaveResource"

(* --------------------------- renewForDomains --------------------------- *)
\* domains[0] and certsStorage.ReadCertificate(domain, ".crt")
DomainsReadCertificate ==
  /\ pc = "renewForDomains"
  /\ IF Len(ctx.domains) = 0
     THEN /\ pc' = "panic"
          /\ UNCHANGED <<domain, cert, trace>>
     ELSE /\ domain' = ctx.domains[1]
          /\ trace' = Append(trace, "ReadCertificate")
          /\ \/ /\ pc' = AfterReadCertificate(TRUE, "domainsNeedRenewal")
                /\ UNCHANGED cert
             \/ \E c \in Certs :
                  /\ cert' = c
                  /\ pc' = AfterReadCertificate(FALSE, "domainsNeedRenewal")
  /\ UNCHANGED <<result, ctx, variant, decision, privateKey,
                 request, certRes, saved, meta, hookCalls, fnIn, fnOut,
                 provVars>>

\* if !needRenewal(cert, domain, ctx.Int("days")) { return nil }
DomainsNeedRenewal ==
  /\ pc = "domainsNeedRenewal"
  /\ trace' = Append(trace, "needRenewal")
  /\ decision' = DecisionOf(needRenewal(cert, ctx.days))
  /\ pc' = AfterDecision(decision', "domainsKey")
  /\ result' = IF pc' = "returned" THEN "nil" ELSE result
  /\ UNCHANGED <<ctx, variant, domain, cert, privateKey,
                 request, certRes, saved, meta, hookCalls, fnIn, fnOut,
                 provVars>>

KeyStepFallsBack(readErr, parseErr) ==
  IF readErr \/ parseErr THEN [pc |-> "domainsObtain", key |-> "nil"]
  ELSE [pc |-> "domainsObtain", key |-> "storedKey"]

\* reuse-key: ReadFile failure is fatal, a parse failure is returned
KeyStep(readErr, parseErr) ==
  IF readErr THEN [pc |-> "fatal", key |-> "nil"]
  ELSE IF parseErr THEN [pc |-> "returned", key |-> "nil"]
  ELSE [pc |-> "domainsObtain", key |-> "storedKey"]

\* ExtractDomains; the stored key is loaded only with --reuse-key
DomainsKey ==
  /\ pc = "domainsKey"
  /\ IF ctx.reuseKey
     THEN \E readErr \in BOOLEAN, parseErr \in BOOLEAN :
            /\ readErr => ~parseErr
            /\ trace' = trace \o (IF readErr THEN <<"ReadFile">>
                                  ELSE <<"ReadFile", "ParsePEMPrivateKey">>)
            /\ pc' = KeyStep(readErr, parseErr).pc
            /\ privateKey' = KeyStep(readErr, parseErr).key
            /\ result' = IF pc' = "returned" THEN "err" ELSE result
     ELSE /\ pc' = "domainsObtain"
          /\ UNCHANGED <<privateKey, trace, result>>
  /\ UNCHANGED <<ctx, variant, domain, cert, decision,
                 request, certRes, saved, meta, hookCalls, fnIn, fnOut,
                 provVars>>

ObtainRequestNoKey(certDomains) ==
  [kind |-> "domains",
   Domains |-> merge(certDomains, ctx.domains),
   Bundle |-> bundle,
   PrivateKey |-> "nil",
   MustStaple |-> ctx.mustStaple]

\* certificate.ObtainRequest{...}
ObtainRequest(certDomains) ==
  [kind |-> "domains",
   Domains |-> merge(certDomains, ctx.domains),
   Bundle |-> bundle,
   PrivateKey |-> privateKey,
   MustStaple |-> ctx.mustStaple]

\* the request is built and client.Certificate.Obtain(request) is called
DomainsObtain ==
  /\ pc = "domainsObtain"
  /\ request' = ObtainRequest(cert.domains)
  /\ trace' = trace \o <<"merge", "Obtain">>
  /\ \E err \in BOOLEAN :
       /\ pc' = AfterObtain(err)
       /\ certRes' = IF err THEN certRes
                     ELSE [kind |-> "resource", request |-> request']
  /\ UNCHANGED <<result, ctx, variant, domain, cert, decision, privateKey,
                 saved, meta, hookCalls, fnIn, fnOut,
                 provVars>>

HookMetaSwapped(m, d) ==
  (renewEnvCertDomain :> d) @@ (renewEnvCertPath :> GetFileName(d, ".key"))
    @@ (renewEnvCertKeyPath :> GetFileName(d, ".crt")) @@ m

\* the hook metadata of a renewed certificate
HookMeta(m, d) ==
  (renewEnvCertDomain :> d) @@ (renewEnvCertPath :> GetFileName(d, ".crt"))
    @@ (renewEnvCertKeyPath :> GetFileName(d, ".key")) @@ m

\* certsStorage.SaveResource(certRes)
DomainsSaveResource ==
  /\ pc = "SaveResource" /\ variant = "domains"
  /\ saved' = Append(saved, certRes)
  /\ trace' = Append(trace, "SaveResource")
  /\ pc' = "launchHook"
  /\ UNCHANGED <<result, ctx, variant, domain, cert, decision, privateKey,
                 request, certRes, meta, hookCalls, fnIn, fnOut,
                 provVars>>

\* the metadata is completed and launchHook(ctx.String("renew-hook"), meta)
\* is returned
DomainsLaunchHook ==
  /\ pc = "launchHook" /\ variant = "domains"
  /\ meta' = HookMeta(meta, domain)
  /\ hookCalls' = Append(hookCalls, [hook |-> ctx.hook, meta |-> meta'])
  /\ trace' = Append(trace, "launchHook")
  /\ \E hookErr \in BOOLEAN : result' = IF hookErr THEN "err" ELSE "nil"
  /\ pc' = "returned"
  /\ UNCHANGED <<ctx, variant, domain, cert, decision, privateKey,
                 request, certRes, saved, fnIn, fnOut,
                 provVars>>

(* ----------------------------- renewForCSR ----------------------------- *)
\* readCSRFile(ctx.GlobalString("csr")); the file named "" cannot be read
CSRReadFile ==
  /\ pc = "renewForCSR"
  /\ trace' = Append(trace, "readCSRFile")
  /\ \/ /\ pc' = "fatal"
        /\ UNCHANGED domain
     \/ /\ ctx.csr # ""
        /\ \E cn \in Domain : domain' = cn
        /\ pc' = "csrReadCertificate"
  /\ UNCHANGED <<result, ctx, variant, cert, decision, privateKey,
                 request, certRes, saved, meta, hookCalls, fnIn, fnOut,
                 provVars>>

\* certsStorage.ReadCertificate(domain, ".crt")
CSRReadCertificate ==
  /\ pc = "csrReadCertificate"
  /\ trace' = Append(trace, "ReadCertificate")
  /\ \/ /\ pc' = AfterReadCertificate(TRUE, "csrNeedRenewal")
        /\ UNCHANGED cert
     \/ \E c \in Certs :
          /\ cert' = c
          /\ pc' = AfterReadCertificate(FALSE, "csrNeedRenewal")
  /\ UNCHANGED <<result, ctx, variant, domain, decision, privateKey,
                 request, certRes, saved, meta, hookCalls, fnIn, fnOut,
                 provVars>>

\* if !needRenewal(cert, domain, ctx.Int("days")) { return nil }
CSRNeedRenewal ==
  /\ pc = "csrNeedRenewal"
  /\ trace' = Append(trace, "needRenewal")
  /\ decision' = DecisionOf(needRenewal(cert, ctx.days))
  /\ pc' = AfterDecision(decision', "csrObtain")
  /\ result' = IF pc' = "returned" THEN "nil" ELSE result
  /\ UNCHANGED <<ctx, variant, domain, cert, privateKey,
                 request, certRes, saved, meta, hookCalls, fnIn, fnOut,
                 provVars>>

CSRObtainReusesKey ==
  /\ pc = "csrObtain"
  /\ request' = [kind |-> "csr", csr |-> ctx.csr, Bundle |-> bundle,
                 PrivateKey |-> IF ctx.reuseKey THEN "storedKey" ELSE "nil"]
  /\ trace' = trace \o (IF ctx.reuseKey
                         THEN <<"ReadFile", "ParsePEMPrivateKey">> ELSE <<>>)
                    \o <<"ObtainForCSR">>
  /\ \E err \in BOOLEAN :
       /\ pc' = AfterObtain(err)
       /\ certRes' = IF err THEN certRes
                     ELSE [kind |-> "resource", request |-> request']
  /\ UNCHANGED <<result, ctx, variant, domain, cert, decision, privateKey,
                 saved, meta, hookCalls, fnIn, fnOut,
                 provVars>>

\* client.Certificate.ObtainForCSR(*csr, bundle)
CSRObtain ==
  /\ pc = "csrObtain"
  /\ request' = [kind |-> "csr", csr |-> ctx.csr, Bundle |-> bundle]
  /\ trace' = Append(trace, "ObtainForCSR")
  /\ \E err \in BOOLEAN :
       /\ pc' = AfterObtain(err)
       /\ certRes' = IF err THEN certRes
                     ELSE [kind |-> "resource", request |-> request']
  /\ UNCHANGED <<result, ctx, variant, domain, cert, decision, privateKey,
                 saved, meta, hookCalls, fnIn, fnOut,
                 provVars>>

\* certsStorage.SaveResource(certRes)
CSRSaveResource ==
  /\ pc = "SaveResource" /\ variant = "csr"
  /\ saved' = Append(saved, certRes)
  /\ trace' = Append(trace, "SaveResource")
  /\ pc' = "launchHook"
  /\ UNCHANGED <<result, ctx, variant, domain, cert, decision, privateKey,
                 request, certRes, meta, hookCalls, fnIn, fnOut,
                 provVars>>

\* the metadata is completed and launchHook(ctx.String("renew-hook"), meta)
\* is returned
CSRLaunchHook ==
  /\ pc = "launchHook" /\ variant = "csr"
  /\ meta' = HookMeta(meta, domain)
  /\ hookCalls' = Append(hookCalls, [hook |-> ctx.hook, meta |-> meta'])
  /\ trace' = Append(trace, "launchHook")
  /\ \E hookErr \in BOOLEAN : result' = IF hookErr THEN "err" ELSE "nil"
  /\ pc' = "returned"
  /\ UNCHANGED <<ctx, variant, domain, cert, decision, privateKey,
                 request, certRes, saved, fnIn, fnOut,
                 provVars>>

(* ------------- needRenewal and merge called directly ------------------- *)
FnCerts == [kind : {"cert"}, IsCA : BOOLEAN, hoursLeft : -48..MaxFnHours,
            domains : {<<>>}]

Idle ==
  /\ result = "none" /\ ctx = [kind |-> "none"] /\ variant = "none"
  /\ domain = "" /\ cert = NoCert /\ decision = "none" /\ privateKey = "nil"
  /\ request = NoRequest /\ certRes = NoCertRes /\ saved = <<>>
  /\ meta = NoMeta /\ hookCalls = <<>> /\ trace = <<>>

InitNeedRenewal ==
  /\ pc = "needRenewal"
  /\ fnIn \in [kind : {"needRenewal"}, cert : FnCerts, days : -2..MaxFnDays]
  /\ fnOut = NoFn
  /\ Idle
  /\ ProvIdle

InitMerge ==
  /\ pc = "merge"
  /\ fnIn \in [kind : {"merge"}, prev : SeqsUpTo(MergeDomain, MaxMergeLen),
               next : SeqsUpTo(MergeDomain, MaxMergeLen)]
  /\ fnOut = NoFn
  /\ Idle
  /\ ProvIdle

\* needRenewal(x509Cert, domain, days)
CallNeedRenewal ==
  /\ pc = "needRenewal"
  /\ fnOut' = [kind |-> "needRenewal",
               value |-> needRenewal(fnIn.cert, fnIn.days)]
  /\ pc' = "needRenewalDone"
  /\ UNCHANGED <<result, ctx, variant, domain, cert, decision, privateKey,
                 request, certRes, saved, meta, hookCalls, trace, fnIn,
                 provVars>>

\* merge(prevDomains, nextDomains)
CallMerge ==
  /\ pc = "merge"
  /\ fnOut' = [kind |-> "merge", value |-> merge(fnIn.prev, fnIn.next)]
  /\ pc' = "mergeDone"
  /\ UNCHANGED <<result, ctx, variant, domain, cert, decision, privateKey,
                 request, certRes, saved, meta, hookCalls, trace, fnIn,
                 provVars>>

\* merge applied to its own result and the same nextDomains
CallMergeAgain ==
  /\ pc = "mergeDone"
  /\ fnOut' = [kind |-> "mergeAgain", first |-> fnOut.value,
               value |-> merge(fnOut.value, fnIn.next)]
  /\ pc' = "mergeAgainDone"
  /\ UNCHANGED <<result, ctx, variant, domain, cert, decision, privateKey,
                 request, certRes, saved, meta, hookCalls, trace, fnIn,
                 provVars>>

Init == InitRenew \/ InitNeedRenewal \/ InitMerge

Next ==
  \/ Before
  \/ renew
  \/ DomainsReadCertificate
  \/ DomainsNeedRenewal
  \/ DomainsKey
  \/ DomainsObtain
  \/ DomainsSaveResource
  \/ DomainsLaunchHook
  \/ CSRReadFile
  \/ CSRReadCertificate
  \/ CSRNeedRenewal
  \/ CSRObtain
  \/ CSRSaveResource
  \/ CSRLaunchHook
  \/ CallNeedRenewal
  \/ CallMerge
  \/ CallMergeAgain

Spec == Init /\ [][Next]_vars


(* ===================== providers/dns/arvancloud ======================== *)
(* The DNS provider: its constructors, Timeout, Present and CleanUp.  Two  *)
(* callers use one provider concurrently; CleanUp is two calls to the      *)
(* backend (lookup, delete) and other calls may come in between.  A domain *)
(* is the sequence of its labels.                                          *)
ProvDomains == {<<"a", "com">>, <<"www", "a", "com">>}
KeyAuths == {"ka1", "ka2"}
Chals == [domain : ProvDomains, keyAuth : KeyAuths]

\* Config as the caller of NewDNSProviderConfig fills it in (seconds)
Configs ==
  [kind : {"config"}, APIKey : {"", "key"},
   TTL : (minTTL - 1)..(minTTL + MaxTTLOver),
   PropagationTimeout : {120}, PollingInterval : {2, 120},
   HTTPClient : {"nil"}]

\* the environment of NewDNSProvider; -1 is a variable that is not set
Envs ==
  [kind : {"env"}, APIKey : {"", "key"}, TTL : {-1, minTTL - 1},
   PropagationTimeout : {-1}, PollingInterval : {-1, 0}]

\* env.GetOrDefaultInt, env.GetOrDefaultSecond
GetOrDefault(v, def) == IF v < 0 THEN def ELSE v

\* NewDefaultConfig
NewDefaultConfig(env) ==
  [kind |-> "config", APIKey |-> "",
   TTL |-> GetOrDefault(env.TTL, minTTL),
   PropagationTimeout |-> GetOrDefault(env.PropagationTimeout, 120),
   PollingInterval |-> GetOrDefault(env.PollingInterval, 2),
   HTTPClient |-> "timeout30s"]

\* internal.NewClient(apiKey), with the HTTP client of the configuration
NewClient(config) ==
  [apiKey |-> config.APIKey,
   HTTPClient |-> IF config.HTTPClient # "nil" THEN config.HTTPClient
                  ELSE "default"]

NewDNSProviderConfigTTLLe(config) ==
  IF config = NilConfig THEN [provider |-> NoProvider, err |-> "nil config"]
  ELSE IF config.APIKey = ""
       THEN [provider |-> NoProvider, err |-> "credentials missing"]
  ELSE IF config.TTL <= minTTL
       THEN [provider |-> NoProvider, err |-> "invalid TTL"]
  ELSE [provider |-> [kind |-> "provider", config |-> config,
                      client |-> NewClient(config)],
        err |-> "nil"]

\* NewDNSProviderConfig
NewDNSProviderConfig(config) ==
  IF config = NilConfig THEN [provider |-> NoProvider, err |-> "nil config"]
  ELSE IF config.APIKey = ""
       THEN [provider |-> NoProvider, err |-> "credentials missing"]
  ELSE IF config.TTL < minTTL
       THEN [provider |-> NoProvider, err |-> "invalid TTL"]
  ELSE [provider |-> [kind |-> "provider", config |-> config,
                      client |-> NewClient(config)],
        err |-> "nil"]

\* NewDNSProvider: env.Get(EnvAPIKey) fails on a missing or empty variable
NewDNSProvider(env) ==
  IF env.APIKey = "" THEN [provider |-> NoProvider, err |-> "env"]
  ELSE NewDNSProviderConfig(
         [NewDefaultConfig(env) EXCEPT !.APIKey = env.APIKey])

\* DNSProvider.Timeout
Timeout(d) ==
  [kind |-> "timeouts", timeout |-> d.config.PropagationTimeout,
   interval |-> d.config.PollingInterval]

\* dns01.GetRecord: the name _acme-challenge.<domain>. and the digest of
\* the key authorization
GetRecord(dom, keyAuth) ==
  [fqdn |-> <<"_acme-challenge">> \o dom \o <<"">>,
   value |-> "sha256:" \o keyAuth]

\* dns01.UnFqdn: the name without its final dot
UnFqdn(name) ==
  IF Len(name) > 0 /\ name[Len(name)] = "" THEN SubSeq(name, 1, Len(name) - 1)
  ELSE name

\* strings.Index(name, "." + domain): labels before the first occurrence
IndexOf(name, dom) ==
  LET hits == {i \in 1..(Len(name) - Len(dom)) :
                 SubSeq(name, i + 1, i + Len(dom)) = dom}
  IN IF hits = {} THEN -1 ELSE CHOOSE i \in hits : \A j \in hits : i <= j

\* DNSProvider.extractRecordName
extractRecordName(fqdn, dom) ==
  LET name == UnFqdn(fqdn)
      idx == IndexOf(name, dom)
  IN IF idx # -1 THEN SubSeq(name, 1, idx) ELSE name

\* Present: the record handed to CreateRecord
PresentRecord(d, dom, keyAuth) ==
  LET r == GetRecord(dom, keyAuth)
  IN [Type |-> "txt", Name |-> extractRecordName(r.fqdn, dom),
      Value |-> r.value, TTL |-> d.config.TTL]

\* CleanUp: what GetTxtRecord is asked for
CleanUpQuery(dom, keyAuth) ==
  LET r == GetRecord(dom, keyAuth)
  IN [domain |-> dom, name |-> extractRecordName(r.fqdn, dom),
      value |-> r.value]

(* ---- the backend behind internal.Client ---- *)
Matching(recs, zone, name, value) ==
  {r \in recs : r.zone = zone /\ r.name = name /\ r.value = value}

\* internal.Client.CreateRecord: a new record with a new identifier; the
\* backend keeps one record per zone, name and value
CreateRecord(recs, id, zone, record, fail) ==
  IF fail \/ Matching(recs, zone, record.Name, record.Value) # {}
  THEN [records |-> recs, rec |-> NoRec, err |-> TRUE]
  ELSE LET new == [kind |-> "record", id |-> id, zone |-> zone,
                   name |-> record.Name, value |-> record.Value,
                   ttl |-> record.TTL]
       IN [records |-> recs \cup {new}, rec |-> new, err |-> FALSE]

\* internal.Client.GetTxtRecord: the record of the zone with this name and
\* value; an error when there is none
GetTxtRecord(recs, zone, name, value, fail) ==
  IF fail \/ Matching(recs, zone, name, value) = {}
  THEN [record |-> NoRec, err |-> TRUE]
  ELSE [record |-> CHOOSE r \in Matching(recs, zone, name, value) : TRUE,
        err |-> FALSE]

\* internal.Client.DeleteRecord: removes the record of the zone with this
\* identifier; an error when there is none
DeleteRecord(recs, zone, id, fail) ==
  LET hit == {r \in recs : r.zone = zone /\ r.id = id}
  IN IF fail \/ hit = {} THEN [records |-> recs, err |-> TRUE]
     ELSE [records |-> recs \ hit, err |-> FALSE]

(* ---- the calls ---- *)
InitProvider ==
  /\ pc = "construct"
  /\ ctor \in [kind : {"NewDNSProviderConfig"},
               arg : Configs \cup {NilConfig}, err : {"pending"}]
            \cup [kind : {"NewDNSProvider"}, arg : Envs, err : {"pending"}]
  /\ provider = NoProvider
  /\ timeouts = NoTimeouts
  /\ records = {}
  /\ nextID = 1
  /\ chal \in {c \in [Callers -> Chals] :
                 c[1] = [domain |-> <<"a", "com">>, keyAuth |-> "ka1"]}
  /\ cur = [p \in Callers |-> NoCall]
  /\ hist = [p \in Callers |-> <<>>]
  /\ writes = 0
  /\ fnIn = [kind |-> "provider"]
  /\ fnOut = NoFn
  /\ Idle

cmdVars == <<result, ctx, variant, domain, cert, decision, privateKey,
             request, certRes, saved, meta, hookCalls, trace, fnIn, fnOut>>

\* NewDNSProvider() or NewDNSProviderConfig(config)
Construct ==
  /\ pc = "construct"
  /\ LET r == IF ctor.kind = "NewDNSProvider" THEN NewDNSProvider(ctor.arg)
              ELSE NewDNSProviderConfig(ctor.arg)
     IN /\ provider' = r.provider
        /\ ctor' = [ctor EXCEPT !.err = r.err]
        /\ pc' = IF r.err = "nil" THEN "ready" ELSE "failed"
  /\ UNCHANGED <<timeouts, records, nextID, chal, cur, hist, writes>>
  /\ UNCHANGED cmdVars

\* d.Timeout()
CallTimeout ==
  /\ pc = "ready"
  /\ timeouts = NoTimeouts
  /\ timeouts' = Timeout(provider)
  /\ UNCHANGED <<pc, ctor, provider, records, nextID, chal, cur, hist, writes>>
  /\ UNCHANGED cmdVars

\* a completed call: its outcome, whether its last backend call failed on
\* the way (fail), the record looked up (found), the identifiers handed to
\* DeleteRecord (issued), the record created (rec), the backend when the
\* call began (pre), before its last backend call (mid) and after it (post)
Entry(op, err, fail, lookupErr, found, issued, rec, pre, mid, post, w) ==
  [op |-> op, err |-> err, fail |-> fail, lookupErr |-> lookupErr,
   found |-> found, issued |-> issued, rec |-> rec, pre |-> pre,
   mid |-> mid, post |-> post, w |-> w]

Started == LET n(p) == Len(hist[p]) + (IF cur[p] = NoCall THEN 0 ELSE 1)
           IN n(1) + n(2)

CanCall(p) == pc = "ready" /\ cur[p] = NoCall /\ Started < MaxCalls

\* d.Present(domain, token, keyAuth)
Present(p) ==
  /\ CanCall(p)
  /\ \E fail \in BOOLEAN :
       LET r == CreateRecord(records, nextID, chal[p].domain,
                  PresentRecord(provider, chal[p].domain, chal[p].keyAuth),
                  fail)
           w == IF r.err THEN writes ELSE writes + 1
       IN /\ records' = r.records
          /\ nextID' = IF r.err THEN nextID ELSE nextID + 1
          /\ writes' = w
          /\ hist' = [hist EXCEPT ![p] = Append(@,
                        Entry("Present", r.err, fail, FALSE, NoRec, <<>>, r.rec,
                              records, records, r.records, w))]
  /\ UNCHANGED <<pc, ctor, provider, timeouts, chal, cur>>
  /\ UNCHANGED cmdVars

CleanUpLookupIgnoresErr(p) ==
  /\ CanCall(p)
  /\ \E fail \in BOOLEAN :
       LET q == CleanUpQuery(chal[p].domain, chal[p].keyAuth)
           r == GetTxtRecord(records, q.domain, q.name, q.value, fail)
       IN /\ cur' = [cur EXCEPT ![p] =
                       [op |-> "CleanUp", found |-> r.record,
                        pre |-> records]]
          /\ UNCHANGED hist
  /\ UNCHANGED <<pc, ctor, provider, timeouts, records, nextID, chal, writes>>
  /\ UNCHANGED cmdVars

CleanUpLookupKeepsRecord(p) ==
  /\ CanCall(p)
  /\ \E fail \in BOOLEAN :
       LET q == CleanUpQuery(chal[p].domain, chal[p].keyAuth)
           r == GetTxtRecord(records, q.domain, q.name, q.value, fail)
       IN IF r.err
          THEN /\ hist' = [hist EXCEPT ![p] = Append(@,
                             Entry("CleanUp", TRUE, fail, TRUE, NoRec, <<>>,
                                   NoRec, records, records, records, writes))]
               /\ UNCHANGED <<cur, provider>>
          ELSE /\ cur' = [cur EXCEPT ![p] =
                            [op |-> "CleanUp", found |-> r.record,
                             pre |-> records]]
               /\ provider' = [kind |-> "provider", config |-> provider.config,
                               client |-> provider.client,
                               record |-> r.record]
               /\ UNCHANGED hist
  /\ UNCHANGED <<pc, ctor, timeouts, records, nextID, chal, writes>>
  /\ UNCHANGED cmdVars

\* d.CleanUp(domain, token, keyAuth), up to the answer of GetTxtRecord
CleanUpLookup(p) ==
  /\ CanCall(p)
  /\ \E fail \in BOOLEAN :
       LET q == CleanUpQuery(chal[p].domain, chal[p].keyAuth)
           r == GetTxtRecord(records, q.domain, q.name, q.value, fail)
       IN IF r.err
          THEN /\ hist' = [hist EXCEPT ![p] = Append(@,
                             Entry("CleanUp", TRUE, fail, TRUE, NoRec, <<>>, NoRec,
                                   records, records, records, writes))]
               /\ UNCHANGED cur
          ELSE /\ cur' = [cur EXCEPT ![p] =
                            [op |-> "CleanUp", found |-> r.record,
                             pre |-> records]]
               /\ UNCHANGED hist
  /\ UNCHANGED <<pc, ctor, provider, timeouts, records, nextID, chal, writes>>
  /\ UNCHANGED cmdVars

CleanUpDeleteIgnoresErr(p) ==
  /\ pc = "ready"
  /\ cur[p] # NoCall
  /\ \E fail \in BOOLEAN :
       LET r == DeleteRecord(records, chal[p].domain, cur[p].found.id, fail)
           w == IF r.err THEN writes ELSE writes + 1
       IN /\ records' = r.records
          /\ writes' = w
          /\ hist' = [hist EXCEPT ![p] = Append(@,
                        Entry("CleanUp", FALSE, fail, FALSE, cur[p].found,
                              <<cur[p].found.id>>, NoRec,
                              cur[p].pre, records, r.records, w))]
  /\ cur' = [cur EXCEPT ![p] = NoCall]
  /\ UNCHANGED <<pc, ctor, provider, timeouts, nextID, chal>>
  /\ UNCHANGED cmdVars

CleanUpDeleteByName(p) ==
  /\ pc = "ready"
  /\ cur[p] # NoCall
  /\ \E fail \in BOOLEAN :
     \E t \in {x \in records : x.zone = chal[p].domain
                                /\ x.name = cur[p].found.name}
            \cup {cur[p].found} :
       LET r == DeleteRecord(records, chal[p].domain, t.id, fail)
           w == IF r.err THEN writes ELSE writes + 1
       IN /\ records' = r.records
          /\ writes' = w
          /\ hist' = [hist EXCEPT ![p] = Append(@,
                        Entry("CleanUp", r.err, fail, FALSE, cur[p].found,
                              <<t.id>>, NoRec,
                              cur[p].pre, records, r.records, w))]
  /\ cur' = [cur EXCEPT ![p] = NoCall]
  /\ UNCHANGED <<pc, ctor, provider, timeouts, nextID, chal>>
  /\ UNCHANGED cmdVars

\* d.CleanUp, from d.client.DeleteRecord(domain, record.ID) to the return
CleanUpDelete(p) ==
  /\ pc = "ready"
  /\ cur[p] # NoCall
  /\ \E fail \in BOOLEAN :
       LET r == DeleteRecord(records, chal[p].domain, cur[p].found.id, fail)
           w == IF r.err THEN writes ELSE writes + 1
       IN /\ records' = r.records
          /\ writes' = w
          /\ hist' = [hist EXCEPT ![p] = Append(@,
                        Entry("CleanUp", r.err, fail, FALSE, cur[p].found,
                              <<cur[p].found.id>>, NoRec,
                              cur[p].pre, records, r.records, w))]
  /\ cur' = [cur EXCEPT ![p] = NoCall]
  /\ UNCHANGED <<pc, ctor, provider, timeouts, nextID, chal>>
  /\ UNCHANGED cmdVars

NextProvider ==
  \/ Construct
  \/ CallTimeout
  \/ \E p \in Callers : Present(p)
  \/ \E p \in Callers : CleanUpLookup(p)
  \/ \E p \in Callers : CleanUpDelete(p)

SpecProvider == InitProvider /\ [][NextProvider]_vars

(* ------------------------------ claims --------------------------------- *)
InTrace(name) == \E i \in 1..Len(trace) : trace[i] = name
LastCall == IF trace = <<>> THEN "" ELSE trace[Len(trace)]
InRenew == fnIn = NoFn
Terminal == pc \in {"fatal", "returned", "panic"}
Elems(q) == {q[i] : i \in 1..Len(q)}

\* the whole days in a number of hours, rounded toward zero, by its bounds
WholeDays(hours) ==
  CHOOSE h \in -3..(MaxFnDays + 2) :
    IF hours >= 0 THEN 24 * h <= hours /\ hours < 24 * (h + 1)
    ELSE 24 * (h - 1) < hours /\ hours <= 24 * h

\* C1: for a certificate that is not a CA and a threshold d, needRenewal
\* returns true iff d < 0 or h <= d, h the whole days until NotAfter; the
\* renew command decides to renew under the same condition.
C1_NeedRenewalIff ==
  /\ (pc = "needRenewalDone" /\ ~fnIn.cert.IsCA) =>
       /\ ~fnOut.value.fatal
       /\ fnOut.value.ret <=>
            (fnIn.days < 0 \/ WholeDays(fnIn.cert.hoursLeft) <= fnIn.days)
  /\ (InRenew /\ decision # "none" /\ ~cert.IsCA) =>
       /\ decision \in {"renew", "skip"}
       /\ decision = "renew" <=>
            (ctx.days < 0 \/ WholeDays(cert.hoursLeft) <= ctx.days)

\* d = 30 and 30 whole days left (743 hours): renewal is due
C1_Witness ==
  /\ pc = "needRenewalDone" /\ ~fnIn.cert.IsCA
  /\ fnIn.days = 30 /\ fnIn.cert.hoursLeft = 743
  /\ fnOut.value.ret

\* C2: with a stored certificate that is a CA, whatever the threshold, the
\* decision is fatal and yields no boolean, and the run ends there: no
\* issuance, no storage, no hook, in both variants.
C2_CAIsFatal ==
  /\ (pc = "needRenewalDone" /\ fnIn.cert.IsCA) => fnOut.value.fatal
  /\ (InRenew /\ cert # NoCert /\ cert.IsCA) =>
       /\ pc \in {"domainsNeedRenewal", "csrNeedRenewal", "fatal"}
       /\ decision \in {"none", "fatal"}
       /\ pc = "fatal" <=> decision = "fatal"
       /\ LastCall \in {"ReadCertificate", "needRenewal"}
       /\ request = NoRequest /\ certRes = NoCertRes
       /\ saved = <<>> /\ hookCalls = <<>> /\ result = "none"

\* a CA certificate met with a force-renew threshold in the CSR variant
C2_Witness ==
  /\ InRenew /\ cert # NoCert /\ cert.IsCA
  /\ variant = "csr" /\ ctx.days < 0
  /\ decision = "fatal" /\ pc = "fatal"

\* first position of x in the sequence q (x occurs in q)
FirstIndex(q, x) == CHOOSE i \in 1..Len(q) :
                      q[i] = x /\ \A j \in 1..(i - 1) : q[j] # x

\* out is prev followed by the distinct elements of next that prev lacks,
\* in the order of their first occurrence in next
IsMergeOf(out, prev, next) ==
  LET new == Elems(next) \ Elems(prev)
      n == Len(prev)
  IN /\ Len(out) = n + Cardinality(new)
     /\ \A i \in 1..n : out[i] = prev[i]
     /\ {out[i] : i \in (n + 1)..Len(out)} = new
     /\ \A i, j \in (n + 1)..Len(out) :
          i < j => FirstIndex(next, out[i]) < FirstIndex(next, out[j])

\* C3: merge(prev, next) is prev, unchanged, followed by the distinct
\* elements of next not in prev in order of first occurrence; the domains
\* of the issuance request of the domain variant are this merge of the
\* stored certificate's domains with the requested ones.
C3_MergeShape ==
  /\ pc = "mergeDone" => IsMergeOf(fnOut.value, fnIn.prev, fnIn.next)
  /\ (InRenew /\ request.kind = "domains") =>
       IsMergeOf(request.Domains, cert.domains, ctx.domains)

\* two new domains, one of them twice, after a kept one
C3_Witness ==
  /\ pc = "mergeDone"
  /\ fnIn.prev = <<"a.com">>
  /\ fnIn.next = <<"c.com", "b.com", "c.com">>
  /\ fnOut.value = <<"a.com", "c.com", "b.com">>

\* C4: merge(merge(p, n), n) = merge(p, n).
C4_MergeIdempotent ==
  pc = "mergeAgainDone" => fnOut.value = fnOut.first

\* the second merge of a list that added a domain the first time
C4_Witness ==
  /\ pc = "mergeAgainDone"
  /\ fnIn.prev = <<"a.com">>
  /\ fnIn.next = <<"b.com", "a.com", "b.com">>
  /\ fnOut.value = <<"a.com", "b.com">>

IssuanceCalled == InTrace("Obtain") \/ InTrace("ObtainForCSR")
IssuanceSucceeded == IssuanceCalled /\ certRes # NoCertRes
IssuanceFailed == IssuanceCalled /\ certRes = NoCertRes
CertLoadFailed == InTrace("ReadCertificate") /\ cert = NoCert
KeyLoadFailed == InTrace("ReadFile") /\ privateKey = "nil"
HookInvoked == InTrace("launchHook") \/ hookCalls # <<>>

\* C5: the hook is invoked only after a successful issuance, and every run
\* whose issuance succeeded ends with the hook invoked; never on skip or
\* after a fatal failure.
C5_HookIffIssued ==
  InRenew =>
    /\ HookInvoked => IssuanceSucceeded
    /\ (Terminal /\ IssuanceSucceeded) => HookInvoked
    /\ decision = "skip" => ~HookInvoked
    /\ (pc = "fatal" \/ CertLoadFailed \/ KeyLoadFailed \/ IssuanceFailed
          \/ decision = "fatal") => ~HookInvoked

\* a run of the CSR variant whose issuance succeeded and that called the hook
C5_Witness ==
  /\ InRenew /\ variant = "csr" /\ pc = "returned"
  /\ IssuanceSucceeded /\ Len(hookCalls) = 1

\* C6: on skip the action returns nil at once: no key read, no issuance,
\* nothing saved, no certificate keys in the metadata, no hook.
C6_SkipNoEffect ==
  (InRenew /\ decision = "skip") =>
    /\ pc = "returned" /\ result = "nil"
    /\ LastCall = "needRenewal"
    /\ ~InTrace("ReadFile") /\ privateKey = "nil"
    /\ ~IssuanceCalled /\ request = NoRequest /\ certRes = NoCertRes
    /\ saved = <<>>
    /\ DOMAIN meta = {renewEnvAccountEmail}
    /\ hookCalls = <<>>

\* a skip although key reuse was requested
C6_Witness ==
  /\ InRenew /\ decision = "skip" /\ variant = "domains" /\ ctx.reuseKey
  /\ pc = "returned" /\ result = "nil"

StepRank(name) ==
  CASE name = "needRenewal" -> 1
    [] name = "merge" -> 2
    [] name \in {"Obtain", "ObtainForCSR"} -> 3
    [] name = "SaveResource" -> 4
    [] name = "launchHook" -> 5
    [] OTHER -> 0

\* C7: decision, reconciliation, issuance, storage, notification happen in
\* this order, each at most once and only after the step before it (of the
\* variant) has completed; the hook is invoked at most once.
C7_Sequential ==
  InRenew =>
    /\ \A i, j \in 1..Len(trace) :
         (i < j /\ StepRank(trace[i]) > 0 /\ StepRank(trace[j]) > 0)
           => StepRank(trace[i]) < StepRank(trace[j])
    /\ InTrace("launchHook") => InTrace("SaveResource")
    /\ InTrace("SaveResource") => IssuanceSucceeded /\ Len(saved) = 1
    /\ InTrace("Obtain") => InTrace("merge")
    /\ InTrace("merge") => (InTrace("needRenewal") /\ decision = "renew")
    /\ InTrace("ObtainForCSR") => (InTrace("needRenewal") /\ decision = "renew")
    /\ Len(hookCalls) <= 1 /\ Len(saved) <= 1

\* a complete run of the domain variant
C7_Witness ==
  /\ InRenew /\ variant = "domains" /\ pc = "returned"
  /\ InTrace("needRenewal") /\ InTrace("merge") /\ InTrace("Obtain")
  /\ InTrace("SaveResource") /\ InTrace("launchHook")

\* C8: after a failed certificate load, decision, key load or parse, or
\* issuance, no later step runs: the failing call is the last one, nothing
\* is saved, the hook is not called and the run does not end with nil.
C8_FailureTerminal ==
  (InRenew /\ (CertLoadFailed \/ decision = "fatal" \/ KeyLoadFailed
                 \/ IssuanceFailed)) =>
    /\ pc = "fatal" \/ (pc = "returned" /\ result = "err")
    /\ CertLoadFailed => LastCall = "ReadCertificate"
    /\ decision = "fatal" => LastCall = "needRenewal"
    /\ KeyLoadFailed => LastCall \in {"ReadFile", "ParsePEMPrivateKey"}
    /\ IssuanceFailed => LastCall \in {"Obtain", "ObtainForCSR"}
    /\ ~InTrace("SaveResource") /\ saved = <<>>
    /\ hookCalls = <<>>

\* a failed issuance of the domain variant
C8_Witness ==
  /\ InRenew /\ variant = "domains" /\ IssuanceFailed
  /\ pc = "fatal" /\ saved = <<>>

\* C9: in the domain variant with key reuse the request carries the stored
\* key; a key that cannot be read or parsed ends the run without issuance;
\* without key reuse the request carries no key and the key is not read.
C9_KeyReuse ==
  (InRenew /\ variant = "domains") =>
    /\ (request # NoRequest /\ ctx.reuseKey) =>
         /\ request.PrivateKey = "storedKey"
         /\ InTrace("ReadFile") /\ InTrace("ParsePEMPrivateKey")
    /\ KeyLoadFailed =>
         /\ Terminal /\ ~(pc = "returned" /\ result = "nil")
         /\ ~InTrace("Obtain") /\ request = NoRequest
    /\ ~ctx.reuseKey =>
         /\ ~InTrace("ReadFile") /\ ~InTrace("ParsePEMPrivateKey")
         /\ request # NoRequest => request.PrivateKey = "nil"

\* an issuance request with the stored key
C9_Witness ==
  /\ InRenew /\ variant = "domains" /\ ctx.reuseKey
  /\ InTrace("Obtain") /\ request.PrivateKey = "storedKey"

\* C10: with both a domain list and a CSR, or neither, the command dies in
\* Before: no setup, no challenge setup, nothing else is ever called; with
\* exactly one of them the action runs (setup is its first call).
C10_BeforeAborts ==
  InRenew =>
    LET d == Len(ctx.domains) > 0
        c == Len(ctx.csr) > 0
    IN /\ (d <=> c) => (pc \in {"Before", "fatal"} /\ trace = <<>>
                          /\ variant = "none" /\ request = NoRequest)
       /\ ((d <=> ~c) /\ pc # "Before") =>
            (pc = "renew" \/ (trace # <<>> /\ trace[1] = "setup"))

\* both given: dead before any call
C10_Witness ==
  /\ InRenew /\ Len(ctx.domains) > 0 /\ Len(ctx.csr) > 0
  /\ pc = "fatal" /\ trace = <<>>

\* C11: the metadata handed to the hook has exactly the four keys: the
\* account email, the primary domain of the run (the first requested domain,
\* or the common name of the CSR), and the .crt and .key file names storage
\* gives for that domain; a successful renewal calls the hook exactly once.
C11_HookMetadata ==
  InRenew =>
    /\ \A i \in 1..Len(hookCalls) :
         LET m == hookCalls[i].meta
             d == IF variant = "domains" THEN ctx.domains[1] ELSE domain
         IN /\ DOMAIN m = {renewEnvAccountEmail, renewEnvCertDomain,
                           renewEnvCertPath, renewEnvCertKeyPath}
            /\ m[renewEnvAccountEmail] = AccountEmail
            /\ m[renewEnvCertDomain] = d
            /\ m[renewEnvCertPath] = GetFileName(d, ".crt")
            /\ m[renewEnvCertKeyPath] = GetFileName(d, ".key")
            /\ hookCalls[i].hook = ctx.hook
    /\ (pc = "returned" /\ IssuanceSucceeded) => Len(hookCalls) = 1

\* a renewal for b.com whose second requested domain is a.com
C11_Witness ==
  /\ InRenew /\ variant = "domains" /\ pc = "returned"
  /\ ctx.domains = <<"b.com", "a.com">>
  /\ Len(hookCalls) = 1
  /\ hookCalls[1].meta[renewEnvCertPath] = "b.com.crt"

\* C19: the CSR variant has no reconciliation and no key reuse: merge is
\* not applied, the stored key is not read even with --reuse-key, and the
\* issuance is ObtainForCSR with the CSR and the bundle flag only.
C19_CSRNoKeyNoMerge ==
  (InRenew /\ variant = "csr") =>
    /\ ~InTrace("merge") /\ ~InTrace("Obtain")
    /\ ~InTrace("ReadFile") /\ ~InTrace("ParsePEMPrivateKey")
    /\ privateKey = "nil"
    /\ request # NoRequest =>
         /\ request = [kind |-> "csr", csr |-> ctx.csr,
                       Bundle |-> ~ctx.noBundle]
         /\ InTrace("ObtainForCSR")

\* a renewal from a CSR with --reuse-key on the command line
C19_Witness ==
  /\ InRenew /\ variant = "csr" /\ ctx.reuseKey /\ ctx.noBundle
  /\ pc = "returned" /\ IssuanceSucceeded

\* C20: once Before has passed, the CSR variant is entered iff a non-empty
\* CSR was given and the domain variant iff a non-empty domain list was.
C20_VariantAgrees ==
  (InRenew /\ variant # "none") =>
    /\ variant = "csr" <=> ctx.csr # ""
    /\ variant = "domains" <=> Len(ctx.domains) > 0

(* ----------------------- claims: arvancloud ---------------------------- *)
Constructed == pc \in {"ready", "failed"}
Calls(p) == {hist[p][i] : i \in 1..Len(hist[p])}
AllCalls == Calls(1) \cup Calls(2)

\* C12: NewDNSProviderConfig returns an error and no provider for a nil
\* configuration, an empty APIKey or a TTL below 600, and a provider
\* otherwise (600 included); no call is made without a provider, and every
\* record Present creates has a TTL of at least 600.
C12_ConstructionRejects ==
  /\ (Constructed /\ ctor.kind = "NewDNSProviderConfig") =>
       LET c == ctor.arg
           bad == c = NilConfig \/ c.APIKey = "" \/ c.TTL < 600
       IN /\ bad => (pc = "failed" /\ provider = NoProvider /\ ctor.err # "nil")
          /\ ~bad => (pc = "ready" /\ provider # NoProvider /\ ctor.err = "nil"
                        /\ provider.config = c)
  /\ (fnIn.kind = "provider" /\ pc # "ready") =>
       (AllCalls = {} /\ records = {} /\ timeouts = NoTimeouts
          /\ cur = [p \in Callers |-> NoCall])
  /\ (fnIn.kind = "provider" /\ pc = "ready") =>
       /\ provider.config.APIKey # "" /\ provider.client.apiKey # ""
       /\ \A r \in records : r.ttl >= 600
       /\ \A e \in AllCalls : (e.op = "Present" /\ ~e.err) => e.rec.ttl >= 600

\* a record created with the smallest TTL that is accepted
C12_Witness ==
  /\ pc = "ready" /\ ctor.kind = "NewDNSProviderConfig"
  /\ ctor.arg.TTL = 600
  /\ \E e \in AllCalls : e.op = "Present" /\ ~e.err /\ e.rec.ttl = 600

\* C13: Timeout() of a constructed provider yields 0 < interval < timeout.
C13_TimeoutOrdered ==
  timeouts # NoTimeouts =>
    (0 < timeouts.interval /\ timeouts.interval < timeouts.timeout)

(* ---- Present and CleanUp against the backend ---- *)
\* the record of the backend that belongs to the challenge of caller p
IsOwn(p, r) ==
  LET q == CleanUpQuery(chal[p].domain, chal[p].keyAuth)
  IN r.zone = q.domain /\ r.name = q.name /\ r.value = q.value

\* a call that returned nil
PresentOk(e) == e.op = "Present" /\ ~e.err
CleanUpOk(e) == e.op = "CleanUp" /\ ~e.err

C15_CleanUpToleratesAbsent ==
  fnIn.kind = "provider" =>
    \A p \in Callers : \A e \in Calls(p) :
      (e.op = "CleanUp" /\ ~e.fail
         /\ Matching(e.pre, chal[p].domain,
                     CleanUpQuery(chal[p].domain, chal[p].keyAuth).name,
                     CleanUpQuery(chal[p].domain, chal[p].keyAuth).value) = {})
        => (~e.err /\ e.post = e.pre)

\* C16: a CleanUp removes at most one record, only a record of its own
\* domain, name and value, hands DeleteRecord at most one identifier, and,
\* when the two callers have different challenges, only a record that a
\* Present of the same caller created.
C16_CleanUpOnlyOwnRecord ==
  fnIn.kind = "provider" =>
    \A p \in Callers : \A e \in Calls(p) :
      e.op = "CleanUp" =>
        LET removed == e.mid \ e.post
        IN /\ e.post \subseteq e.mid
           /\ Cardinality(removed) <= 1
           /\ Len(e.issued) <= 1
           /\ \A r \in removed :
                /\ IsOwn(p, r)
                /\ e.issued = <<r.id>>
                /\ chal[1] # chal[2] =>
                     \E a \in Calls(p) : PresentOk(a) /\ a.rec = r

\* two renewals of one domain with different key authorizations: both
\* records were created, caller 1 has cleaned up, the record of caller 2
\* is still there
C16_Witness ==
  /\ pc = "ready"
  /\ chal[1].domain = chal[2].domain /\ chal[1].keyAuth # chal[2].keyAuth
  /\ \E a \in Calls(1) : \E c \in Calls(2) : \E b \in Calls(1) :
       /\ PresentOk(a) /\ PresentOk(c) /\ CleanUpOk(b)
       /\ a.w < c.w /\ c.w < b.w
       /\ b.mid \ b.post = {a.rec}
       /\ records = {c.rec}

\* whether, by the calls of p alone, the record of p exists before its
\* i-th call: the last of its earlier calls that succeeded is a Present
OwnLive(p, i) ==
  LET ok == {j \in 1..(i - 1) : ~hist[p][j].err}
  IN /\ ok # {}
     /\ hist[p][CHOOSE j \in ok : \A k \in ok : k <= j].op = "Present"

\* what the i-th call of p yields when the calls of p run alone
SequentialResult(p, i) ==
  LET e == hist[p][i]
  IN IF e.op = "Present" THEN e.err <=> (e.fail \/ OwnLive(p, i))
     ELSE IF e.lookupErr THEN e.err /\ (e.fail \/ ~OwnLive(p, i))
     ELSE OwnLive(p, i) /\ (e.err <=> e.fail)

\* a record without the identifier the backend chose for it
Content(r) == [zone |-> r.zone, name |-> r.name, value |-> r.value,
               ttl |-> r.ttl]

\* the records the per-caller call sequences leave, run one after another
SequentialRecords ==
  {[zone |-> chal[p].domain,
    name |-> CleanUpQuery(chal[p].domain, chal[p].keyAuth).name,
    value |-> CleanUpQuery(chal[p].domain, chal[p].keyAuth).value,
    ttl |-> provider.config.TTL] :
     p \in {q \in Callers : OwnLive(q, Len(hist[q]) + 1)}}

C17_Interleaved ==
  (pc = "ready" /\ chal[1].domain # chal[2].domain) =>
    /\ \A p \in Callers : \A i \in 1..Len(hist[p]) : SequentialResult(p, i)
    /\ {Content(r) : r \in records} = SequentialRecords

\* C17: Present, CleanUp and Timeout never write the provider (config,
\* client), and with the two callers on different domains every call
\* yields what it yields when the calls of each caller run alone, and the
\* records of the backend are those the two sequences leave one after
\* another.
C17_ConcurrentDomains ==
  /\ []C17_Interleaved
  /\ [][pc = "ready" => provider' = provider]_vars

\* different domains; a call of caller 2 changed the backend between the
\* lookup and the delete of a CleanUp of caller 1
C17_Witness ==
  /\ pc = "ready" /\ chal[1].domain # chal[2].domain
  /\ \E b \in Calls(1) : \E c \in Calls(2) :
       /\ CleanUpOk(b) /\ PresentOk(c)
       /\ c.rec \notin b.pre /\ c.rec \in b.mid

\* C18: a CleanUp hands DeleteRecord at most one identifier; when the
\* lookup fails it returns an error, no delete is issued and the records
\* stay; otherwise the lookup returned a record of the asked zone, name and
\* value that was in the backend, the one delete carries exactly its
\* identifier, and the CleanUp returns an error exactly when the delete
\* fails.
C18_LookupThenDelete ==
  fnIn.kind = "provider" =>
    \A p \in Callers : \A e \in Calls(p) :
      e.op = "CleanUp" =>
        /\ Len(e.issued) <= 1
        /\ e.lookupErr =>
             (e.err /\ e.issued = <<>> /\ e.found = NoRec /\ e.post = e.pre)
        /\ ~e.lookupErr =>
             /\ e.found # NoRec /\ e.found \in e.pre /\ IsOwn(p, e.found)
             /\ e.issued = <<e.found.id>>
             /\ e.err <=> (e.post = e.mid)
             /\ e.fail => e.err

\* one CleanUp that deleted after its lookup and one that stopped at a
\* failed lookup
C18_Witness ==
  \E p \in Callers : \E e \in Calls(p) : \E f \in AllCalls :
    /\ e.op = "CleanUp" /\ ~e.lookupErr /\ ~e.err
    /\ e.issued = <<e.found.id>> /\ e.post = e.mid \ {e.found}
    /\ f.op = "CleanUp" /\ f.lookupErr /\ f.issued = <<>>

====
